---- MODULE Spec2Model ----
(***************************************************************************)
(* Model of app.py, the wildfire dashboard: the metadata resolver          *)
(* (cargar_maestros), the memoized dataset loader (cargar_datos), the      *)
(* cascading filter pipeline and the presentation layer, as one script     *)
(* run per user interaction.                                               *)
(*                                                                         *)
(* Values.  A cell of a table is one of: an integer, a float with an       *)
(* integral value (printed "n.0"), a text, or the missing value NaN.       *)
(* Tables.  A table is a set of column names and a sequence of blocks; a   *)
(* block stands for n consecutive identical records (fecha is the year of  *)
(* the index, row gives one cell per column).  head, len and the filters   *)
(* are computed on the blocks.                                             *)
(***************************************************************************)
EXTENDS Integers, Sequences, FiniteSets, TLC

VARIABLES
    meta,              \* master_data.xlsx on disk
    zip,               \* fires-all.csv.zip on disk
    cache,             \* the st.cache_data entry of cargar_datos
    nCargas,           \* how many times the body of cargar_datos has run
    avisos,            \* st.warning / st.error messages emitted by the loader body
    diccionarios,      \* the mappings the loader body got from cargar_maestros
    aciertoCache,      \* whether the last script run was served from the cache
    estado,            \* how the last script run ended
    df,                \* the module-level df of the last script run (line 128)
    min_year, max_year,
    dfAnio,            \* df_filtrado after line 142
    lista_comunidades, comunidad_sel,
    dfCom,             \* df_filtrado after line 150
    lista_provincias, provincia_sel,
    dfProv,            \* df_filtrado after line 157
    lista_municipios, municipio_sel,
    df_filtrado,       \* df_filtrado after line 164
    marcadores,        \* number of CircleMarkers added to the map
    rendered           \* the elements the last script run put on the page

vars == <<meta, zip, cache, nCargas, avisos, diccionarios, aciertoCache, estado, df,
          min_year, max_year, dfAnio, lista_comunidades, comunidad_sel, dfCom,
          lista_provincias, provincia_sel, dfProv, lista_municipios,
          municipio_sel, df_filtrado, marcadores, rendered>>

----------------------------------------------------------------------------
(* Cells *)

Entero(n) == [t |-> "int", n |-> n, s |-> ""]
Flotante(n) == [t |-> "float", n |-> n, s |-> ""]
Texto(x) == [t |-> "str", n |-> 0, s |-> x]
NaN == [t |-> "nan", n |-> 0, s |-> ""]

IsNum(c) == c.t \in {"int", "float"}
isna(c) == c.t = "nan"

\* Python's ==: numbers by value (1 == 1.0), texts by content, NaN equals nothing.
PyEq(a, b) ==
    \/ IsNum(a) /\ IsNum(b) /\ a.n = b.n
    \/ a.t = "str" /\ b.t = "str" /\ a.s = b.s

\* str(value), as pandas prints a cell.
py_str(c) ==
    CASE c.t = "int" -> ToString(c.n)
      [] c.t = "float" -> ToString(c.n) \o ".0"
      [] c.t = "str" -> c.s
      [] OTHER -> "nan"

\* df[c], a Series: one value per block.
Serie(d, c) == [i \in DOMAIN d.runs |-> d.runs[i].row[c]]

\* Series.unique().
unique(ser) == {ser[i] : i \in DOMAIN ser}

\* Series.astype(str).
astype_str(ser) == [i \in DOMAIN ser |-> Texto(py_str(ser[i]))]

\* text + Series of texts.
Prefijo(txt, ser) == [i \in DOMAIN ser |-> Texto(txt \o ser[i].s)]

\* Series.fillna(other): the missing values are taken from other.
\* (Variant: the values are left as they are.)
fillna_sin_relleno(ser, otra) == ser
fillna(ser, otra) ==
    [i \in DOMAIN ser |-> IF isna(ser[i]) THEN otra[i] ELSE ser[i]]

----------------------------------------------------------------------------
(* Tables *)

DataFrameVacio == [cols |-> {}, runs |-> <<>>]

RECURSIVE SumN(_)
SumN(rs) == IF rs = <<>> THEN 0 ELSE Head(rs).n + SumN(Tail(rs))

len(d) == SumN(d.runs)

\* DataFrame.empty: some axis has length 0.  (Variant: a test that is never
\* true, such as `df is None`.)
empty_es_none(d) == FALSE
empty(d) == d.cols = {} \/ len(d) = 0

\* d[c] = ser.
SetCol(d, c, ser) ==
    [cols |-> d.cols \cup {c},
     runs |-> [i \in DOMAIN d.runs |->
                 [d.runs[i] EXCEPT !.row = (c :> ser[i]) @@ @]]]

\* d[c] = value, the same for every record.
SetEscalar(d, c, v) == SetCol(d, c, [i \in DOMAIN d.runs |-> v])

\* pd.to_numeric(errors='coerce'), one value: a text that is no number is NaN.
coerce(c) == IF c.t = "str" THEN NaN ELSE c

\* pd.to_numeric(ser, errors='coerce'): the result is int64 when every value
\* is an integer, float64 as soon as one is missing or fractional.
to_numeric(ser) ==
    LET flotante == \E v \in unique(ser) : coerce(v).t \in {"nan", "float"}
    IN [i \in DOMAIN ser |->
          LET v == coerce(ser[i])
          IN IF v.t = "int" /\ flotante THEN Flotante(v.n) ELSE v]

RECURSIVE headRuns(_, _)
headRuns(rs, k) ==
    IF k <= 0 \/ rs = <<>> THEN <<>>
    ELSE IF Head(rs).n >= k THEN <<[Head(rs) EXCEPT !.n = k]>>
    ELSE <<Head(rs)>> \o headRuns(Tail(rs), k - Head(rs).n)

\* DataFrame.head(k).
head(d, k) == [d EXCEPT !.runs = headRuns(d.runs, k)]

RECURSIVE Filtrar(_, _)
Filtrar(rs, mask) ==
    IF rs = <<>> THEN <<>>
    ELSE (IF Head(mask) THEN <<Head(rs)>> ELSE <<>>)
         \o Filtrar(Tail(rs), Tail(mask))

\* d[mask], mask a boolean Series.
Seleccion(d, mask) == [d EXCEPT !.runs = Filtrar(d.runs, mask)]

----------------------------------------------------------------------------
(* 2. Carga de datos y maestros *)

Mapeos == {"comunidades", "provincias", "causas"}
ColClave == [k \in Mapeos |->
    CASE k = "comunidades" -> "idcomunidad"
      [] k = "provincias" -> "idprovincia"
      [] OTHER -> "causa"]
ColValor == [k \in Mapeos |->
    CASE k = "comunidades" -> "comunidad"
      [] k = "provincias" -> "provincia"
      [] OTHER -> "causa_label"]

\* 'k' in df_meta.columns and 'v' in df_meta.columns (lines 30, 35, 41).
\* (Variant: only the code column is looked for.)
TieneSoloClave(cols, k) == ColClave[k] \in cols
TienePar(cols, k) == ColClave[k] \in cols /\ ColValor[k] \in cols

\* dict(zip(df[[k, v]].dropna()...)): the items in row order; a later item
\* with an equal key replaces an earlier one, which Buscar honours.
Items(filas, k, v) ==
    SelectSeq([i \in DOMAIN filas |-> <<filas[i][k], filas[i][v]>>],
              LAMBDA p : ~isna(p[1]) /\ ~isna(p[2]))

EnDict(dic, c) == \E i \in DOMAIN dic : PyEq(dic[i][1], c)

\* dict lookup as Series.map does it: NaN when the key is absent.
Buscar(dic, c) ==
    IF EnDict(dic, c)
    THEN LET i == CHOOSE j \in DOMAIN dic :
                    /\ PyEq(dic[j][1], c)
                    /\ \A l \in DOMAIN dic : PyEq(dic[l][1], c) => l <= j
         IN dic[i][2]
    ELSE NaN

\* Series.map(dict).
map(ser, dic) == [i \in DOMAIN ser |-> Buscar(dic, ser[i])]

SinMaestros == [k \in {} |-> <<>>]

\* The handler of line 49: any other exception ends in a warning and {}.
OtroErrorCapturado ==
    [maestros |-> SinMaestros, avisos |-> {"warning_metadatos_error"},
     excepcion |-> FALSE]

cargar_maestros(m) ==
    IF m.estado = "ausente"
    THEN [maestros |-> SinMaestros, avisos |-> {"warning_metadatos_ausente"},
          excepcion |-> FALSE]
    ELSE IF m.estado = "ilegible"
    THEN OtroErrorCapturado
    ELSE [maestros |-> [k \in {x \in Mapeos : TienePar(m.cols, x)} |->
                          Items(m.filas, ColClave[k], ColValor[k])],
          avisos |-> {},
          excepcion |-> FALSE]

\* Lines 64: the .csv entries outside __MACOSX, in archive order.
archivos_csv(z) == SelectSeq(z.entradas, LAMBDA e : e.tipo = "csv")

\* pd.read_csv(f, parse_dates=['fecha'], index_col='fecha') of a readable file
\* that has the column: fecha becomes the index.
read_csv(csv) ==
    [cols |-> csv.cols \ {"fecha"},
     runs |-> [i \in DOMAIN csv.runs |->
                 [fecha |-> csv.runs[i].fecha,
                  n |-> csv.runs[i].n,
                  row |-> [c \in csv.cols \ {"fecha"} |-> csv.runs[i].row[c]]]]]

\* Lines 76-84 and 87-93: one of region / province.
Placeholder(d, id, nombre) == SetEscalar(d, nombre, Texto("Desconocido"))
Traducir(d, dic, id, mapeo, nombre) ==
    IF id \in d.cols
    THEN LET num == SetCol(d, id, to_numeric(Serie(d, id)))
         IN IF mapeo \in DOMAIN dic
            THEN LET m == SetCol(num, nombre, map(Serie(num, id), dic[mapeo]))
                 IN SetCol(m, nombre,
                           fillna(Serie(m, nombre), astype_str(Serie(m, id))))
            ELSE num
    ELSE Placeholder(d, id, nombre)

\* Lines 99-104: the column that holds the cause code.
col_causa_id(d) ==
    IF "causa" \in d.cols THEN "causa"
    ELSE IF "idcausa" \in d.cols THEN "idcausa"
    ELSE IF "causa_desc" \in d.cols THEN "causa_desc"
    ELSE "causa"

\* Lines 106-114.
TraducirCausa(d, dic) ==
    LET id == col_causa_id(d)
    IN IF id \in d.cols
       THEN LET num == SetCol(d, id, to_numeric(Serie(d, id)))
            IN IF "causas" \in DOMAIN dic
               THEN LET m == SetCol(num, "causa_texto",
                                    map(Serie(num, id), dic["causas"]))
                    IN SetCol(m, "causa_texto",
                              fillna(Serie(m, "causa_texto"),
                                     Prefijo("Causa ", astype_str(Serie(m, id)))))
               ELSE SetCol(num, "causa_texto", Serie(num, id))
       ELSE SetEscalar(d, "causa_texto", Texto("No especificado"))

cols_num == <<"superficie", "gastos", "perdidas", "lat", "lng">>

RECURSIVE Numericos(_, _)
\* Lines 117-120.
Numericos(d, cs) ==
    IF cs = <<>> THEN d
    ELSE Numericos(IF Head(cs) \in d.cols
                   THEN SetCol(d, Head(cs), to_numeric(Serie(d, Head(cs))))
                   ELSE d,
                   Tail(cs))

\* Lines 70-122, after read_csv.
Enriquecer(d, dic) ==
    LET a == Traducir(d, dic, "idcomunidad", "comunidades", "nombre_comunidad")
        b == Traducir(a, dic, "idprovincia", "provincias", "nombre_provincia")
        c == TraducirCausa(b, dic)
    IN Numericos(c, cols_num)

\* The body of cargar_datos (lines 57-126): the table it returns, the
\* messages it emits and the mappings it worked with.
cargar_datos(m, z) ==
    LET res == cargar_maestros(m)
        fallo == [df |-> DataFrameVacio,
                  avisos |-> res.avisos \cup {"error_datos"},
                  diccionarios |-> res.maestros]
    IN IF res.excepcion \/ z.estado \in {"ausente", "corrupto"}
       THEN fallo
       ELSE IF archivos_csv(z) = <<>>
       THEN [df |-> DataFrameVacio, avisos |-> res.avisos,
             diccionarios |-> res.maestros]
       ELSE LET csv == archivos_csv(z)[1].csv
            IN IF ~csv.legible \/ "fecha" \notin csv.cols
               THEN fallo
               ELSE [df |-> Enriquecer(read_csv(csv), res.maestros),
                     avisos |-> res.avisos,
                     diccionarios |-> res.maestros]

----------------------------------------------------------------------------
(* 3. Barra lateral (filtros) *)

\* Line 140: the years present in the index.
anios(d) == {d.runs[i].fecha : i \in DOMAIN d.runs}

\* df.index.year.
Anio(d) == [i \in DOMAIN d.runs |-> d.runs[i].fecha]

\* Line 142.  (Variant: the bounds are excluded.)
FiltroAniosEstricto(d, y1, y2) ==
    Seleccion(d, [i \in DOMAIN d.runs |-> Anio(d)[i] > y1 /\ Anio(d)[i] < y2])
FiltroAnios(d, y1, y2) ==
    Seleccion(d, [i \in DOMAIN d.runs |-> Anio(d)[i] >= y1 /\ Anio(d)[i] <= y2])

\* Lines 146, 153, 160: the sentinel and the distinct stringified values.  The
\* list is sorted in the code; a set keeps what the selectbox offers.
Opciones(d, c, todas) ==
    {todas} \cup {v.s : v \in unique(astype_str(Serie(d, c)))}

\* Lines 150, 157, 164: d[d[c] == sel], sel being the chosen text.
\* (Variant: the filter is not applied.)
FiltroIgualOmitido(d, c, sel) == d
FiltroIgual(d, c, sel) ==
    Seleccion(d, [i \in DOMAIN d.runs |-> PyEq(Serie(d, c)[i], Texto(sel))])

----------------------------------------------------------------------------
(* 4. Dashboard *)

UmbralMapa == 2000
PuntosMapa == 1000

\* Line 183: dropna(subset=['lat', 'lng']).
dropna_coords(d) ==
    Seleccion(d, [i \in DOMAIN d.runs |->
                    ~isna(Serie(d, "lat")[i]) /\ ~isna(Serie(d, "lng")[i])])

\* Lines 186-188.  (Variant: no truncation.)
SinTruncar(d) == d
Truncar(d) == IF len(d) > UmbralMapa THEN head(d, PuntosMapa) ELSE d

\* What a script run leaves when it ends before a step.
Blanco ==
    [estado |-> "pendiente", min_year |-> 0, max_year |-> 0,
     dfAnio |-> DataFrameVacio,
     lista_comunidades |-> {}, comunidad_sel |-> "", dfCom |-> DataFrameVacio,
     lista_provincias |-> {}, provincia_sel |-> "", dfProv |-> DataFrameVacio,
     lista_municipios |-> {}, municipio_sel |-> "",
     df_filtrado |-> DataFrameVacio, marcadores |-> 0, rendered |-> {}]

Excepcion(r) == [r EXCEPT !.estado = "excepcion",
                          !.rendered = @ \cup {"excepcion"}]

\* Lines 183-214.
Mapa(r) ==
    LET df_mapa == dropna_coords(r.df_filtrado)
    IN IF ~empty(df_mapa)
       THEN [r EXCEPT !.marcadores = len(Truncar(df_mapa)),
                      !.rendered = @ \cup {"mapa"} \cup
                          (IF len(df_mapa) > UmbralMapa
                           THEN {"warning_mapa"} ELSE {})]
       ELSE [r EXCEPT !.rendered = @ \cup {"info_sin_coordenadas"}]

\* Lines 219-238.
Graficos(r) ==
    [r EXCEPT !.estado = "completo",
              !.rendered = @ \cup {"grafico_causas"} \cup
                  (IF len(r.df_filtrado) > 0 THEN {"grafico_anual"} ELSE {})]

\* Lines 169-238: a missing column raises KeyError where it is first read.
Presentar(r) ==
    LET cols == r.df_filtrado.cols
        t == [r EXCEPT !.rendered = @ \cup {"titulo", "metric_total"}]
    IN IF "superficie" \notin cols THEN Excepcion(t)
       ELSE LET m2 == [t EXCEPT !.rendered = @ \cup {"metric_superficie"}]
       IN IF "gastos" \notin cols THEN Excepcion(m2)
       ELSE LET m3 == [m2 EXCEPT !.rendered = @ \cup {"metric_gastos"}]
       IN IF "perdidas" \notin cols THEN Excepcion(m3)
       ELSE LET m4 == [m3 EXCEPT !.rendered = @ \cup {"metric_perdidas"}]
       IN IF ~({"lat", "lng"} \subseteq cols) THEN Excepcion(m4)
       ELSE Graficos(Mapa(m4))

----------------------------------------------------------------------------
(* The files on disk *)

MaxBloques == 2

ColsMaestras ==
    {"idcomunidad", "comunidad", "idprovincia", "provincia", "causa", "causa_label"}

\* master_data.xlsx as read_excel gives it: a code column with a gap is float.
TablaMaestra ==
    << [idcomunidad |-> Entero(1), comunidad |-> Texto("Galicia"),
        idprovincia |-> Flotante(27), provincia |-> Texto("Lugo"),
        causa |-> Flotante(4), causa_label |-> Texto("Intencionado")],
       [idcomunidad |-> Entero(3), comunidad |-> Texto("Asturias"),
        idprovincia |-> Flotante(33), provincia |-> Texto("Asturias"),
        causa |-> NaN, causa_label |-> NaN],
       [idcomunidad |-> Entero(2), comunidad |-> NaN,
        idprovincia |-> NaN, provincia |-> Texto("Sin codigo"),
        causa |-> Flotante(5), causa_label |-> NaN] >>

MetaAusente == [estado |-> "ausente", cols |-> {}, filas |-> <<>>]
MetaIlegible == [estado |-> "ilegible", cols |-> {}, filas |-> <<>>]
MetaCon(cols) == [estado |-> "ok", cols |-> cols, filas |-> TablaMaestra]

MetaTodos ==
    {MetaAusente, MetaIlegible} \cup {MetaCon(c) : c \in SUBSET ColsMaestras}
MetaPares ==
    {MetaAusente} \cup
    {MetaCon(UNION {{ColClave[k], ColValor[k]} : k \in ks}) : ks \in SUBSET Mapeos}
MetaExtremos == {MetaAusente, MetaCon(ColsMaestras)}

ColsCodigo == {"idcomunidad", "idprovincia", "causa", "idcausa", "causa_desc"}
ColsResto ==
    {"fecha", "municipio", "superficie", "gastos", "perdidas", "lat", "lng"}
ColsCsv == ColsCodigo \cup ColsResto

\* The kinds of record of fires-all.csv: mapped and unmapped codes, codes that
\* are no number, gaps, a municipality that is missing or no text, records
\* without coordinates.
Filas ==
    { [fecha |-> 2019,
       row |-> [idcomunidad |-> Entero(1), idprovincia |-> Entero(27),
                causa |-> Entero(4), idcausa |-> Entero(40),
                causa_desc |-> Entero(400), municipio |-> Texto("Lugo"),
                superficie |-> Entero(60), gastos |-> Entero(100),
                perdidas |-> NaN, lat |-> Entero(43), lng |-> Entero(-7)]],
      [fecha |-> 2020,
       row |-> [idcomunidad |-> Entero(1), idprovincia |-> Entero(15),
                causa |-> Entero(9), idcausa |-> Entero(4),
                causa_desc |-> Texto("rayo"), municipio |-> NaN,
                superficie |-> Entero(5), gastos |-> NaN,
                perdidas |-> Entero(10), lat |-> NaN, lng |-> Entero(-8)]],
      [fecha |-> 2020,
       row |-> [idcomunidad |-> Entero(2), idprovincia |-> Texto("xx"),
                causa |-> NaN, idcausa |-> NaN,
                causa_desc |-> Entero(4), municipio |-> Texto("Oviedo"),
                superficie |-> Texto("n/d"), gastos |-> Entero(7),
                perdidas |-> Entero(0), lat |-> Entero(43), lng |-> Entero(-6)]],
      [fecha |-> 2021,
       row |-> [idcomunidad |-> NaN, idprovincia |-> Entero(33),
                causa |-> Texto("rayo"), idcausa |-> Entero(9),
                causa_desc |-> NaN, municipio |-> Entero(7),
                superficie |-> Entero(20), gastos |-> Entero(1),
                perdidas |-> Entero(1), lat |-> Entero(42), lng |-> Entero(-5)]] }

\* How many consecutive records a block may stand for.
Repeticiones == {1, PuntosMapa, UmbralMapa + 1}

Bloques == {[fecha |-> f.fecha, row |-> f.row, n |-> k] :
              f \in Filas, k \in Repeticiones}

Secuencias(S, k) == UNION {[1..j -> S] : j \in 0..k}

Csv(cols, runs) == [legible |-> TRUE, cols |-> cols, runs |-> runs]
CsvIlegible == [legible |-> FALSE, cols |-> {}, runs |-> <<>>]

\* The four kinds of record, once each, in year order.
FilasBase ==
    LET enOrden == CHOOSE q \in [1..Cardinality(Filas) -> Filas] :
            /\ \A i, j \in DOMAIN q : i # j => q[i] # q[j]
            /\ \A i, j \in DOMAIN q : i < j => q[i].fecha <= q[j].fecha
    IN [i \in DOMAIN enOrden |->
          [fecha |-> enOrden[i].fecha, row |-> enOrden[i].row, n |-> 1]]

Entrada(tipo, csv) == [tipo |-> tipo, csv |-> csv]
Zip(entradas) == [estado |-> "ok", entradas |-> entradas]
\* An archive made on macOS: the resource fork comes before the data.
ZipDe(csv) == Zip(<<Entrada("macosx", CsvIlegible), Entrada("csv", csv)>>)

ZipFallos ==
    { [estado |-> "ausente", entradas |-> <<>>],
      [estado |-> "corrupto", entradas |-> <<>>],
      Zip(<<>>),
      Zip(<<Entrada("macosx", CsvIlegible), Entrada("otro", CsvIlegible)>>),
      Zip(<<Entrada("csv", CsvIlegible)>>) }

\* Column sets: every choice of code columns, and each other column left out.
ColsVariantes ==
    {c \cup ColsResto : c \in SUBSET ColsCodigo} \cup {ColsCsv \ {c} : c \in ColsResto}

Escenarios ==
    (MetaTodos \X
        ({ZipDe(Csv(ColsCsv, FilasBase)),
          Zip(<<Entrada("csv", Csv(ColsCsv, SubSeq(FilasBase, 1, 1))),
                Entrada("csv", Csv(ColsCsv, FilasBase))>>)} \cup ZipFallos))
    \cup (MetaPares \X {ZipDe(Csv(c, FilasBase)) : c \in ColsVariantes})
    \cup (MetaExtremos \X
            {ZipDe(Csv(ColsCsv, r)) : r \in Secuencias(Bloques, MaxBloques)})

----------------------------------------------------------------------------
(* The process *)

SinCache == [lleno |-> FALSE, valor |-> DataFrameVacio]

\* The run's variables, from what the script computed.
Fin(r) ==
    /\ estado' = r.estado
    /\ min_year' = r.min_year
    /\ max_year' = r.max_year
    /\ dfAnio' = r.dfAnio
    /\ lista_comunidades' = r.lista_comunidades
    /\ comunidad_sel' = r.comunidad_sel
    /\ dfCom' = r.dfCom
    /\ lista_provincias' = r.lista_provincias
    /\ provincia_sel' = r.provincia_sel
    /\ dfProv' = r.dfProv
    /\ lista_municipios' = r.lista_municipios
    /\ municipio_sel' = r.municipio_sel
    /\ df_filtrado' = r.df_filtrado
    /\ marcadores' = r.marcadores
    /\ rendered' = r.rendered

Init ==
    /\ \E e \in Escenarios : meta = e[1] /\ zip = e[2]
    /\ cache = SinCache
    /\ nCargas = 0
    /\ avisos = {}
    /\ diccionarios = SinMaestros
    /\ aciertoCache = FALSE
    /\ df = DataFrameVacio
    /\ estado = Blanco.estado
    /\ min_year = Blanco.min_year
    /\ max_year = Blanco.max_year
    /\ dfAnio = Blanco.dfAnio
    /\ lista_comunidades = Blanco.lista_comunidades
    /\ comunidad_sel = Blanco.comunidad_sel
    /\ dfCom = Blanco.dfCom
    /\ lista_provincias = Blanco.lista_provincias
    /\ provincia_sel = Blanco.provincia_sel
    /\ dfProv = Blanco.dfProv
    /\ lista_municipios = Blanco.lista_municipios
    /\ municipio_sel = Blanco.municipio_sel
    /\ df_filtrado = Blanco.df_filtrado
    /\ marcadores = Blanco.marcadores
    /\ rendered = Blanco.rendered

\* @st.cache_data (line 55): the returned value is stored whatever it is.
\* (Variant: an empty table is not stored.)
MemorizarSiHayDatos(c, valor) ==
    IF empty(valor) THEN c ELSE [lleno |-> TRUE, valor |-> valor]
Memorizar(c, valor) == [lleno |-> TRUE, valor |-> valor]

\* Line 128, df = cargar_datos(): the body runs only when nothing is stored.
Llamada ==
    IF cache.lleno
    THEN [df |-> cache.valor, avisos |-> avisos, diccionarios |-> diccionarios]
    ELSE cargar_datos(meta, zip)

Cargar(res) ==
    /\ df' = res.df
    /\ avisos' = res.avisos
    /\ diccionarios' = res.diccionarios
    /\ cache' = IF cache.lleno THEN cache ELSE Memorizar(cache, res.df)
    /\ nCargas' = IF cache.lleno THEN nCargas ELSE nCargas + 1
    /\ aciertoCache' = cache.lleno
    /\ UNCHANGED <<meta, zip>>

\* Lines 140-164 and on, for one choice in every widget; each widget returns
\* one of the options it was given.
Barra(base) ==
    LET r0 == [Blanco EXCEPT !.rendered = {"sidebar"}]
    IN IF anios(base) = {}
       THEN Fin(Excepcion(r0))
       ELSE \E y1, y2 \in anios(base) :
         /\ y1 <= y2
         /\ \E a \in {FiltroAnios(base, y1, y2)} :
            LET r1 == [r0 EXCEPT !.min_year = y1, !.max_year = y2, !.dfAnio = a]
            IN IF "nombre_comunidad" \notin a.cols
               THEN Fin(Excepcion(r1))
               ELSE \E lc \in {Opciones(a, "nombre_comunidad", "Todas")} :
                    \E cs \in lc :
                    \E b \in {IF cs # "Todas"
                              THEN FiltroIgual(a, "nombre_comunidad", cs)
                              ELSE a} :
                 LET r2 == [r1 EXCEPT !.lista_comunidades = lc,
                                      !.comunidad_sel = cs, !.dfCom = b]
                 IN IF "nombre_provincia" \notin b.cols
                    THEN Fin(Excepcion(r2))
                    ELSE \E lp \in {Opciones(b, "nombre_provincia", "Todas")} :
                         \E ps \in lp :
                         \E c \in {IF ps # "Todas"
                                   THEN FiltroIgual(b, "nombre_provincia", ps)
                                   ELSE b} :
                      LET r3 == [r2 EXCEPT !.lista_provincias = lp,
                                           !.provincia_sel = ps, !.dfProv = c]
                      IN IF "municipio" \notin c.cols
                         THEN Fin(Excepcion(r3))
                         ELSE \E lm \in {Opciones(c, "municipio", "Todos")} :
                              \E ms \in lm :
                           Fin(Presentar([r3 EXCEPT
                               !.lista_municipios = lm,
                               !.municipio_sel = ms,
                               !.df_filtrado =
                                   IF ms # "Todos"
                                   THEN FiltroIgual(c, "municipio", ms)
                                   ELSE c]))

\* A script run that ends at lines 130-132: st.info and st.stop.
Detenido ==
    /\ estado = "pendiente"
    /\ \E res \in {Llamada} :
        /\ empty(res.df)
        /\ Cargar(res)
        /\ Fin([Blanco EXCEPT !.estado = "detenido",
                              !.rendered = {"info_esperando_datos"}])

\* A script run that goes past line 132: the sidebar, then the dashboard.
Tablero ==
    /\ estado = "pendiente"
    /\ \E res \in {Llamada} :
        /\ ~empty(res.df)
        /\ Cargar(res)
        /\ Barra(res.df)

\* The user changes a widget or reloads the page: the names of the finished
\* run are gone, the script is to run again from its first line, and only the
\* cache of the process is kept.
Interaccion ==
    /\ estado # "pendiente"
    /\ Fin(Blanco)
    /\ df' = DataFrameVacio
    /\ aciertoCache' = FALSE
    /\ UNCHANGED <<meta, zip, cache, nCargas, avisos, diccionarios>>

Next == Detenido \/ Tablero \/ Interaccion

Spec == Init /\ [][Next]_vars

----------------------------------------------------------------------------
(* Properties.  They are stated on the files on disk and on what a run left, *)
(* not through the operators of the loader and of the filters.               *)

HuboEjecucion == estado # "pendiente"
Bloque(d) == {d.runs[i] : i \in DOMAIN d.runs}

HayCsv == \E i \in DOMAIN zip.entradas : zip.entradas[i].tipo = "csv"
PrimerCsv ==
    zip.entradas[CHOOSE i \in DOMAIN zip.entradas :
        /\ zip.entradas[i].tipo = "csv"
        /\ \A j \in 1..(i - 1) : zip.entradas[j].tipo # "csv"].csv

\* The archive is missing or unreadable, holds no .csv entry outside __MACOSX,
\* or reading the entry raises.
FalloDuro ==
    \/ zip.estado \in {"ausente", "corrupto"}
    \/ ~HayCsv
    \/ ~PrimerCsv.legible
    \/ "fecha" \notin PrimerCsv.cols

ElementosTablero ==
    {"titulo", "metric_total", "metric_superficie", "metric_gastos",
     "metric_perdidas", "mapa", "warning_mapa", "info_sin_coordenadas",
     "grafico_anual", "grafico_causas"}

\* C1: on a hard failure of the loader every script run of the process, the
\* first and the later ones, gets the empty table, shows the informational
\* message, stops, and renders no metric, map or chart.
C1_FalloDuroTerminal ==
    (FalloDuro /\ HuboEjecucion) =>
        /\ df = DataFrameVacio
        /\ cache = [lleno |-> TRUE, valor |-> DataFrameVacio]
        /\ estado = "detenido"
        /\ "info_esperando_datos" \in rendered
        /\ rendered \cap ElementosTablero = {}

C1_Testigo ==
    FalloDuro /\ aciertoCache /\ estado = "detenido" /\ "error_datos" \in avisos

ParEnTabla(k) ==
    meta.estado = "ok" /\ ColClave[k] \in meta.cols /\ ColValor[k] \in meta.cols

DatasetCompleto ==
    /\ ~FalloDuro
    /\ PrimerCsv.cols = ColsCsv
    /\ PrimerCsv.runs # <<>>

\* C2: with the reference table missing, unreadable or lacking a column pair,
\* and a complete dataset of at least one record, every script run goes
\* through the filters and the presentation to its end.
C2_FalloBlandoContinua ==
    (DatasetCompleto /\ HuboEjecucion /\ \E k \in Mapeos : ~ParEnTabla(k)) =>
        estado = "completo"

\* The column the cause code is read from: causa, else idcausa, else causa_desc.
ColCausa(cols) ==
    IF "causa" \in cols THEN {"causa"}
    ELSE IF "idcausa" \in cols THEN {"idcausa"}
    ELSE IF "causa_desc" \in cols THEN {"causa_desc"}
    ELSE {}

ColCodigo(k) ==
    IF k = "causas" THEN ColCausa(PrimerCsv.cols)
    ELSE {ColClave[k]} \cap PrimerCsv.cols

ColEtiqueta(k) ==
    CASE k = "comunidades" -> "nombre_comunidad"
      [] k = "provincias" -> "nombre_provincia"
      [] OTHER -> "causa_texto"

\* The pairs of the reference table with both values present.
Pares(k) ==
    {<<meta.filas[i][ColClave[k]], meta.filas[i][ColValor[k]]>> :
        i \in {j \in DOMAIN meta.filas :
                 /\ meta.filas[j][ColClave[k]].t # "nan"
                 /\ meta.filas[j][ColValor[k]].t # "nan"}}

Relleno(k, cod) ==
    IF k = "causas" THEN Texto("Causa " \o py_str(cod))
    ELSE Texto(py_str(cod))

EtiquetaCorrecta(k, id, i) ==
    LET crudo == PrimerCsv.runs[i].row[id]
        cod == cache.valor.runs[i].row[id]
        etiqueta == cache.valor.runs[i].row[ColEtiqueta(k)]
        claves == {p \in Pares(k) : IsNum(cod) /\ IsNum(p[1]) /\ p[1].n = cod.n}
    IN /\ IF crudo.t \in {"int", "float"}
          THEN IsNum(cod) /\ cod.n = crudo.n
          ELSE cod.t = "nan"
       /\ IF claves # {}
          THEN \E p \in claves : etiqueta = p[2]
          ELSE etiqueta = Relleno(k, cod)
       /\ etiqueta.t # "nan"

C4_PlaceholderSinMapeo ==
    (cache.lleno /\ ~FalloDuro) =>
        \A k \in {"comunidades", "provincias"} :
            ~ParEnTabla(k) =>
                /\ ColEtiqueta(k) \in cache.valor.cols
                /\ \A b \in Bloque(cache.valor) :
                       b.row[ColEtiqueta(k)] = Texto("Desconocido")

\* C5: cargar_maestros returns each mapping exactly when both of its columns
\* are in the reference table, whatever the other columns; a missing or
\* unreadable file gives a warning and no mappings, and never makes the
\* loader take its own exception path.
C5_MaestrosDegradan ==
    nCargas > 0 =>
        /\ meta.estado = "ok" =>
              /\ DOMAIN diccionarios = {k \in Mapeos : ParEnTabla(k)}
              /\ avisos \cap {"warning_metadatos_ausente",
                              "warning_metadatos_error"} = {}
        /\ meta.estado = "ausente" =>
              /\ DOMAIN diccionarios = {}
              /\ "warning_metadatos_ausente" \in avisos
        /\ meta.estado = "ilegible" =>
              /\ DOMAIN diccionarios = {}
              /\ "warning_metadatos_error" \in avisos
        /\ ~FalloDuro => "error_datos" \notin avisos

C5_Testigo ==
    /\ nCargas > 0
    /\ meta.estado = "ok"
    /\ meta.cols = {"idprovincia", "provincia", "causa", "comunidad"}
    /\ DOMAIN diccionarios = {"provincias"}

EnRango(b) == min_year <= b.fecha /\ b.fecha <= max_year
DeComunidad(b) ==
    \/ comunidad_sel = "Todas"
    \/ b.row["nombre_comunidad"].t = "str" /\ b.row["nombre_comunidad"].s = comunidad_sel
DeProvincia(b) ==
    \/ provincia_sel = "Todas"
    \/ b.row["nombre_provincia"].t = "str" /\ b.row["nombre_provincia"].s = provincia_sel

\* C6: the province options are "Todas" and the province names of the records
\* in the year range that belong to the chosen region; the municipality
\* options are "Todos" and the municipalities of the records that pass the
\* year, region and province filters.
C6_ListasEnCascada ==
    /\ lista_provincias # {} =>
          lista_provincias = {"Todas"} \cup
              {py_str(b.row["nombre_provincia"]) :
                  b \in {x \in Bloque(df) : EnRango(x) /\ DeComunidad(x)}}
    /\ lista_municipios # {} =>
          lista_municipios = {"Todos"} \cup
              {py_str(b.row["municipio"]) :
                  b \in {x \in Bloque(df) :
                           EnRango(x) /\ DeComunidad(x) /\ DeProvincia(x)}}

C6_Testigo ==
    /\ estado = "completo"
    /\ comunidad_sel = "Galicia"
    /\ provincia_sel = "Lugo"
    /\ lista_provincias = {"Todas", "Lugo", "15.0"}
    /\ lista_municipios = {"Todos", "Lugo"}
    /\ \E b \in Bloque(df) : EnRango(b) /\ b.row["nombre_provincia"] = Texto("Asturias")

DesdeAnio(rs) == SelectSeq(rs, LAMBDA b : b.fecha >= min_year)
HastaAnio(rs) == SelectSeq(rs, LAMBDA b : b.fecha <= max_year)

\* C7: after the year filter the table holds exactly the records whose year y
\* has min_year <= y <= max_year, which is the lower-bound filter and the
\* upper-bound filter applied one after the other, in either order.
C7_RangoDeAnios ==
    (HuboEjecucion /\ min_year # 0) =>
        /\ min_year <= max_year
        /\ dfAnio.cols = df.cols
        /\ dfAnio.runs = SelectSeq(df.runs, EnRango)
        /\ dfAnio.runs = HastaAnio(DesdeAnio(df.runs))
        /\ dfAnio.runs = DesdeAnio(HastaAnio(df.runs))
        /\ \A b \in Bloque(dfAnio) : EnRango(b)

C7_Testigo ==
    /\ estado = "completo"
    /\ min_year = 2020 /\ max_year = 2020
    /\ len(df) = 4
    /\ len(dfAnio) = 2

ConCoordenadas ==
    SumN(SelectSeq(df_filtrado.runs,
                   LAMBDA b : b.row["lat"].t # "nan" /\ b.row["lng"].t # "nan"))

\* C8 as claimed: the map never holds more markers than the number of points
\* kept when truncation happens.
C8_TopeMilPuntos == marcadores <= PuntosMapa

\* C8: the map never holds more markers than the count above which truncation
\* happens; above it, the number of points kept; up to it, every record with
\* both coordinates.
C8_TopeUmbral ==
    estado = "completo" =>
        /\ marcadores <= UmbralMapa
        /\ ConCoordenadas > UmbralMapa => marcadores = PuntosMapa
        /\ ConCoordenadas <= UmbralMapa => marcadores = ConCoordenadas

C8_Testigo ==
    /\ estado = "completo"
    /\ ConCoordenadas > UmbralMapa
    /\ marcadores = PuntosMapa
    /\ "warning_mapa" \in rendered

\* C9: the body of cargar_datos runs at most once in the process, whether it
\* succeeds or fails; every script run works on the memoized table; and once
\* stored, the table is never changed.
C9_CargaUnica ==
    /\ [](nCargas <= 1)
    /\ [](HuboEjecucion => cache.lleno /\ nCargas = 1 /\ df = cache.valor)
    /\ [][cache.lleno => cache' = cache /\ nCargas' = nCargas]_vars

C9_Testigo ==
    /\ aciertoCache
    /\ nCargas = 1
    /\ estado = "completo"
    /\ len(df_filtrado) < len(cache.valor)

\* C10: choosing an option other than the sentinel in a selector leaves a
\* filtered set that is not empty.
C10_OpcionConEfecto ==
    /\ comunidad_sel \notin {"", "Todas"} => len(dfCom) > 0
    /\ provincia_sel \notin {"", "Todas"} => len(dfProv) > 0
    /\ municipio_sel \notin {"", "Todos"} => len(df_filtrado) > 0

====
